---- MODULE Spec2Model ----
(***************************************************************************)
(* Model of mmyolo/models/dense_heads/damo_yolo_head.py: the decode and    *)
(* select pipeline of ZeroHead (multiclass_nms, postprocess, the box       *)
(* codec, Integral, the center priors and ZeroHead.predict).               *)
(*                                                                         *)
(* Tensors are sequences (1-based here, 0-based in the source; class       *)
(* labels and location indices keep the source's 0-based values).  Tensor  *)
(* values are exact integers unless a definition says otherwise.           *)
(*                                                                         *)
(* Each function of the source has its own specification: Init draws the   *)
(* arguments from bounded sets, one action runs the function and leaves    *)
(* its local variables in `locals` and its return value in `ret`.          *)
(***************************************************************************)
EXTENDS Integers, Sequences, FiniteSets

VARIABLES pc,          \* "init" before the call, "done" after it
          args,        \* the arguments of the call
          locals,      \* the local variables of the call when it returned
          ret,         \* what the call returned, or the exception it raised
          feat_size,   \* ZeroHead.feat_size
          mlvl_priors  \* ZeroHead.mlvl_priors

vars == <<pc, args, locals, ret, feat_size, mlvl_priors>>

(***************************************************************************)
(* Bounds of the model.                                                    *)
(***************************************************************************)
\* largest number of locations (rows of multi_bboxes / multi_scores)
MaxLoc == 2

None == [none |-> TRUE]

Max2(a, b) == IF a >= b THEN a ELSE b
Min2(a, b) == IF a <= b THEN a ELSE b

RECURSIVE SetMax(_)
SetMax(S) == LET x == CHOOSE y \in S : TRUE
             IN  IF S = {x} THEN x ELSE Max2(x, SetMax(S \ {x}))

\* a function over 1..n as a tuple (the same value; TLC then evaluates it once
\* instead of at every use)
Tup(f) == f \o <<>>

\* t[idx[1]], t[idx[2]], ...: indexing a tensor with a tensor of indices
\* (the indices are 1-based positions of the model's sequences)
Gather(t, idx) == Tup([k \in 1..Len(idx) |-> t[idx[k]]])

\* t[:m]
Prefix(t, m) == SubSeq(t, 1, Min2(m, Len(t)))

(***************************************************************************)
(* torchvision.ops.batched_nms, as called at line 182.                     *)
(***************************************************************************)
Area(b) == (b[3] - b[1]) * (b[4] - b[2])

\* intersection area: max(0, xx2 - xx1) * max(0, yy2 - yy1)
Inter(a, b) ==
    LET w == Min2(a[3], b[3]) - Max2(a[1], b[1])
        h == Min2(a[4], b[4]) - Max2(a[2], b[2])
    IN  Max2(0, w) * Max2(0, h)

Union(a, b) == Area(a) + Area(b) - Inter(a, b)

\* IoU(a, b) >= thr, the threshold being the fraction thr[1] / thr[2]
IouAtLeast(a, b, thr) ==
    Union(a, b) > 0 /\ Inter(a, b) * thr[2] >= thr[1] * Union(a, b)

\* nms discards a box whose IoU with a kept box is greater than the threshold
\* (inter / union > iou_threshold; 0 / 0 is NaN and compares false)
IouGreater(a, b, thr) ==
    Union(a, b) > 0 /\ Inter(a, b) * thr[2] > thr[1] * Union(a, b)

\* the orders in which a sort by descending score may leave the indices S:
\* equal scores may come out in either order
RECURSIVE ScoreOrders(_, _)
ScoreOrders(scores, S) ==
    IF S = {} THEN {<<>>}
    ELSE LET m   == SetMax({scores[i] : i \in S})
             top == {i \in S : scores[i] = m}
         IN  UNION {{<<i>> \o o : o \in ScoreOrders(scores, S \ {i})} : i \in top}

\* nms with the comparison turned into "IoU >= threshold"
nms_ge(boxes, order, iou_threshold) ==
    LET F[p \in 0..Len(order)] ==
            IF p = 0 THEN <<>>
            ELSE LET i    == order[p]
                     kept == F[p - 1]
                 IN  IF \E q \in 1..Len(kept) :
                            IouAtLeast(boxes[kept[q]], boxes[i], iou_threshold)
                     THEN kept
                     ELSE Append(kept, i)
    IN  F[Len(order)]

\* torchvision.ops.nms over boxes visited in `order`: the kept indices, in
\* the order visited
nms(boxes, order, iou_threshold) ==
    LET F[p \in 0..Len(order)] ==
            IF p = 0 THEN <<>>
            ELSE LET i    == order[p]
                     kept == F[p - 1]
                 IN  IF \E q \in 1..Len(kept) :
                            IouGreater(boxes[kept[q]], boxes[i], iou_threshold)
                     THEN kept
                     ELSE Append(kept, i)
    IN  F[Len(order)]

\* boxes.max()
max_coordinate(boxes) ==
    SetMax({boxes[i][k] : i \in 1..Len(boxes), k \in 1..4})

\* _batched_nms_coordinate_trick: every box is moved by its class index
\* times (max_coordinate + 1) and one nms runs over all of them
boxes_for_nms(boxes, idxs) ==
    LET offset == max_coordinate(boxes) + 1
    IN  Tup([i \in 1..Len(boxes) |->
                Tup([k \in 1..4 |-> boxes[i][k] + idxs[i] * offset])])

batched_nms(boxes, idxs, iou_threshold, order) ==
    IF Len(boxes) = 0 THEN <<>>
    ELSE nms(boxes_for_nms(boxes, idxs), order, iou_threshold)

(***************************************************************************)
(* multiclass_nms, lines 126-187.                                          *)
(***************************************************************************)
\* the mask with the comparison turned into "scores >= score_thr"
valid_mask_ge(scores, score_thr) ==
    Tup([i \in 1..Len(scores) |->
            Tup([c \in 1..Len(scores[i]) |-> scores[i][c] >= score_thr])])

\* line 159: valid_mask = scores > score_thr
valid_mask(scores, score_thr) ==
    Tup([i \in 1..Len(scores) |->
            Tup([c \in 1..Len(scores[i]) |-> scores[i][c] > score_thr])])

\* valid_mask.nonzero(as_tuple=False): the <<row, column>> pairs (0-based) of
\* the true entries, row by row
nonzero(mask, num_classes) ==
    LET n == Len(mask)
        F[k \in 0..(n * num_classes)] ==
            IF k = 0 THEN <<>>
            ELSE LET i == ((k - 1) \div num_classes) + 1
                     c == ((k - 1) % num_classes) + 1
                 IN  IF mask[i][c] THEN Append(F[k - 1], <<i - 1, c - 1>>)
                                   ELSE F[k - 1]
    IN  F[n * num_classes]

\* lines 152-156: the per-class view of the boxes, (n, #class, 4)
class_view(multi_bboxes, num_classes) ==
    Tup([i \in 1..Len(multi_bboxes) |->
            IF Len(multi_bboxes[i]) > 4
            THEN Tup([c \in 1..(Len(multi_bboxes[i]) \div 4) |->
                         SubSeq(multi_bboxes[i], 4 * c - 3, 4 * c)])
            ELSE Tup([c \in 1..num_classes |-> multi_bboxes[i]])])

\* the masked selection with the labels read from the row of each pair
masked_select_row_labels(multi_bboxes, multi_scores, num_classes, score_thr, score_factors) ==
    LET view   == class_view(multi_bboxes, num_classes)
        pairs  == nonzero(valid_mask(multi_scores, score_thr), num_classes)
        scaled == IF score_factors = None THEN multi_scores
                  ELSE Tup([i \in 1..Len(multi_scores) |->
                               Tup([c \in 1..num_classes |->
                                       multi_scores[i][c] * score_factors.v[i]])])
    IN  [bboxes |-> Tup([k \in 1..Len(pairs) |->
                            view[pairs[k][1] + 1][pairs[k][2] + 1]]),
         scores |-> Tup([k \in 1..Len(pairs) |->
                            scaled[pairs[k][1] + 1][pairs[k][2] + 1]]),
         labels |-> Tup([k \in 1..Len(pairs) |-> pairs[k][1]])]

\* lines 150-173: the local variables bboxes, scores, labels after the
\* masked selection
masked_select(multi_bboxes, multi_scores, num_classes, score_thr, score_factors) ==
    LET view   == class_view(multi_bboxes, num_classes)
        pairs  == nonzero(valid_mask(multi_scores, score_thr), num_classes)
        scaled == IF score_factors = None THEN multi_scores
                  ELSE Tup([i \in 1..Len(multi_scores) |->
                               Tup([c \in 1..num_classes |->
                                       multi_scores[i][c] * score_factors.v[i]])])
    IN  [bboxes |-> Tup([k \in 1..Len(pairs) |->
                            view[pairs[k][1] + 1][pairs[k][2] + 1]]),
         scores |-> Tup([k \in 1..Len(pairs) |->
                            scaled[pairs[k][1] + 1][pairs[k][2] + 1]]),
         labels |-> Tup([k \in 1..Len(pairs) |-> pairs[k][2]])]

\* the truncation one entry too long: keep[:max_num + 1]
truncate_off_by_one(keep, max_num) ==
    IF max_num > 0 THEN Prefix(keep, max_num + 1) ELSE keep

\* line 184-185: if max_num > 0: keep = keep[:max_num]
truncate(keep, max_num) == IF max_num > 0 THEN Prefix(keep, max_num) ELSE keep

\* lines 175-187, given the order in which batched_nms's sort left the
\* candidates: the locals at the return and the returned triple
multiclass_nms(multi_bboxes, multi_scores, num_classes, score_thr, iou_thr, max_num, score_factors, order) ==
    LET sel == masked_select(multi_bboxes, multi_scores, num_classes,
                             score_thr, score_factors)
    IN  IF Len(sel.bboxes) = 0
        THEN [sel |-> sel, nms_keep |-> <<>>, keep |-> <<>>,
              bboxes |-> <<>>, bbox_cols |-> 5,
              scores |-> <<>>, labels |-> <<>>, labels_dtype |-> "long"]
        ELSE LET nms_keep == batched_nms(sel.bboxes, sel.labels, iou_thr, order)
                 keep     == truncate(nms_keep, max_num)
             IN  [sel |-> sel, nms_keep |-> nms_keep, keep |-> keep,
                  bboxes |-> Gather(sel.bboxes, keep), bbox_cols |-> 4,
                  scores |-> Gather(sel.scores, keep),
                  labels |-> Gather(sel.labels, keep), labels_dtype |-> "long"]

\* the orders batched_nms's sort may produce for the candidates of a call
nms_orders(multi_bboxes, multi_scores, num_classes, score_thr, score_factors) ==
    LET sel == masked_select(multi_bboxes, multi_scores, num_classes,
                             score_thr, score_factors)
    IN  ScoreOrders(sel.scores, 1..Len(sel.scores))

(***************************************************************************)
(* Specification SpecNms: one call of multiclass_nms.                      *)
(***************************************************************************)
Classes == {0, 1}
NumClasses == Cardinality(Classes)

\* A, C and H overlap (IoU(A, C) = 81/100, IoU(A, H) = 1/2 exactly); N lies
\* in negative coordinates, as decoded boxes at the image border do
BoxA == <<0, 0, 10, 10>>
BoxC == <<1, 1, 10, 10>>
BoxH == <<0, 0, 10, 5>>
BoxN == <<-40, -40, 0, 0>>
BoxPool == {BoxA, BoxC, BoxH, BoxN}
\* scores and score_thr in tenths; the scores a class may take
ScorePools == <<{5, 6, 9}, {5, 8}>>
ScoreRows == {<<a, b>> : a \in ScorePools[1], b \in ScorePools[2]}
ScoreThrPool == {5}
\* <<iou_thr, max_num>>, iou_thr being the fraction iou_thr[1] / iou_thr[2]
NmsCfgPool == {<<<<1, 2>>, 0>>, <<<<1, 2>>, 1>>, <<<<1, 5>>, 2>>}

SeqsOf(S, n) == [1..n -> S]

InitNms ==
    /\ pc = "init"
    /\ \E n \in 0..MaxLoc :
       \E b \in SeqsOf(BoxPool, n), sc \in SeqsOf(ScoreRows, n),
          t \in ScoreThrPool, cfg \in NmsCfgPool :
          args = [multi_bboxes |-> b, multi_scores |-> sc,
                  num_classes |-> NumClasses, score_thr |-> t,
                  iou_thr |-> cfg[1], max_num |-> cfg[2],
                  score_factors |-> None]
    /\ locals = None
    /\ ret = None
    /\ feat_size = None
    /\ mlvl_priors = None

CallMulticlassNms ==
    /\ pc = "init"
    /\ \E order \in nms_orders(args.multi_bboxes, args.multi_scores,
                               args.num_classes, args.score_thr,
                               args.score_factors) :
       \E r \in {multiclass_nms(args.multi_bboxes, args.multi_scores,
                                args.num_classes, args.score_thr,
                                args.iou_thr, args.max_num,
                                args.score_factors, order)} :
          /\ locals' = [bboxes |-> r.sel.bboxes, scores |-> r.sel.scores,
                        labels |-> r.sel.labels, order |-> order,
                        nms_keep |-> r.nms_keep, keep |-> r.keep]
          /\ ret' = [bboxes |-> r.bboxes, bbox_cols |-> r.bbox_cols,
                     scores |-> r.scores, labels |-> r.labels,
                     labels_dtype |-> r.labels_dtype]
    /\ pc' = "done"
    /\ UNCHANGED <<args, feat_size, mlvl_priors>>

NextNms == CallMulticlassNms

SpecNms == InitNms /\ [][NextNms]_vars

(***************************************************************************)
(* Claims about multiclass_nms (under SpecNms).                            *)
(***************************************************************************)
\* the set of the entries of a sequence
Range(q) == {q[p] : p \in 1..Len(q)}

\* the position of x in the sequence q
PosIn(q, x) == CHOOSE p \in 1..Len(q) : q[p] = x

Candidates == 1..Len(locals.bboxes)

\* the kept candidates visited before candidate i
KeptBefore(i) ==
    {j \in Range(locals.nms_keep) :
        PosIn(locals.order, j) < PosIn(locals.order, i)}

\* the candidates are visited in descending score order
VisitedByScore ==
    /\ Len(locals.order) = Len(locals.bboxes)
    /\ Range(locals.order) = Candidates
    /\ \A p, q \in 1..Len(locals.order) :
          p < q => locals.scores[locals.order[p]] >= locals.scores[locals.order[q]]

OfClass(q, c) == SelectSeq(q, LAMBDA i : locals.labels[i] = c)

\* C2: suppression never crosses classes: for every class c the class-c
\* candidates that survive are those a suppression pass over the class-c
\* candidates alone keeps.
C2_ClassIndependent ==
    pc = "done" =>
      \A c \in Classes :
         OfClass(locals.nms_keep, c) =
            nms(locals.bboxes, OfClass(locals.order, c), args.iou_thr)

\* C3: with max_num > 0 and K candidates kept by suppression, exactly
\* min(K, max_num) detections are returned, they are the highest-scoring of
\* the K kept over all classes, in descending score order.
C3_Truncation ==
    (pc = "done" /\ args.max_num > 0) =>
      LET K == Len(locals.nms_keep)
          m == Min2(K, args.max_num)
      IN  /\ Len(ret.bboxes) = m /\ Len(ret.scores) = m /\ Len(ret.labels) = m
          /\ m <= args.max_num
          /\ \A p \in 1..m :
                /\ locals.keep[p] \in Range(locals.nms_keep)
                /\ ret.bboxes[p] = locals.bboxes[locals.keep[p]]
                /\ ret.scores[p] = locals.scores[locals.keep[p]]
                /\ ret.labels[p] = locals.labels[locals.keep[p]]
          /\ Cardinality(Range(locals.keep)) = m
          /\ \A p \in 1..m :
                \A i \in Range(locals.nms_keep) \ Range(locals.keep) :
                   ret.scores[p] >= locals.scores[i]
          /\ \A p, q \in 1..m : p < q => ret.scores[p] >= ret.scores[q]

\* C3's case: suppression kept more than max_num candidates, of both classes
C3_Witness ==
    /\ pc = "done"
    /\ args.max_num > 0
    /\ Len(locals.nms_keep) > args.max_num
    /\ Len(ret.bboxes) = args.max_num
    /\ \E i, j \in Range(locals.nms_keep) : locals.labels[i] # locals.labels[j]

\* no (location, class) pair has a score above score_thr
NoScorePasses ==
    \A i \in 1..Len(args.multi_scores) :
       \A c \in 1..args.num_classes : args.multi_scores[i][c] <= args.score_thr

\* C4: when no score passes the threshold the call returns zero boxes, zero
\* scores and zero labels, the labels of integer type.
C4_EmptyResult ==
    (pc = "done" /\ NoScorePasses) =>
      /\ ret.bboxes = <<>> /\ ret.scores = <<>> /\ ret.labels = <<>>
      /\ ret.labels_dtype = "long"

\* C4's case: there are locations, and none of their scores passes
C4_Witness ==
    /\ pc = "done"
    /\ Len(args.multi_scores) = MaxLoc
    /\ NoScorePasses
    /\ ret.bboxes = <<>>

(***************************************************************************)
(* ZeroHead.get_single_level_center_priors, lines 413-430.                 *)
(***************************************************************************)
\* torch.arange(0, n)
arange(n) == Tup([k \in 1..n |-> k - 1])

\* a one-dimensional tensor times a number
times(v, a) == Tup([k \in 1..Len(v) |-> v[k] * a])

\* v.repeat(h, 1): h rows, each a copy of v
repeat_rows(v, h) == Tup([i \in 1..h |-> v])

\* v.unsqueeze(-1).repeat(1, w): one row per entry of v, w copies of it
repeat_cols(v, w) == Tup([i \in 1..Len(v) |-> Tup([j \in 1..w |-> v[i]])])

\* a flatten that reads a rows x cols tensor column by column
flatten_by_column(t, rows, cols) ==
    Tup([k \in 1..(rows * cols) |-> t[((k - 1) % rows) + 1][((k - 1) \div rows) + 1]])

\* t.flatten() of a rows x cols tensor: row by row
flatten(t, rows, cols) ==
    Tup([k \in 1..(rows * cols) |-> t[((k - 1) \div cols) + 1][((k - 1) % cols) + 1]])

\* x.new_full((n,), a)
new_full(n, a) == Tup([k \in 1..n |-> a])

\* torch.stack([a, b, c, d], dim=-1) of one-dimensional tensors
stack4(a, b, c, d) == Tup([k \in 1..Len(a) |-> <<a[k], b[k], c[k], d[k]>>])

get_single_level_center_priors(batch_size, featmap_size, stride) ==
    LET h       == featmap_size[1]
        w       == featmap_size[2]
        x_range == times(arange(w), stride)
        y_range == times(arange(h), stride)
        x       == flatten(repeat_rows(x_range, h), h, w)
        y       == flatten(repeat_cols(y_range, w), h, w)
        strides == new_full(Len(x), stride)
        priors  == stack4(x, y, strides, strides)
    IN  Tup([b \in 1..batch_size |-> priors])

(***************************************************************************)
(* Specification SpecPriors: one call of get_single_level_center_priors.   *)
(***************************************************************************)
\* largest batch size
MaxBatch == 2
\* largest height and width of a feature map
MaxFeat == 3
StridePool == {8, 16, 32}

InitPriors ==
    /\ pc = "init"
    /\ \E b \in 1..MaxBatch, h \in 0..MaxFeat, w \in 0..MaxFeat, st \in StridePool :
          args = [batch_size |-> b, featmap_size |-> <<h, w>>, stride |-> st]
    /\ locals = None
    /\ ret = None
    /\ feat_size = None
    /\ mlvl_priors = None

CallPriors ==
    /\ pc = "init"
    /\ ret' = get_single_level_center_priors(args.batch_size, args.featmap_size,
                                             args.stride)
    /\ pc' = "done"
    /\ UNCHANGED <<args, locals, feat_size, mlvl_priors>>

NextPriors == CallPriors

SpecPriors == InitPriors /\ [][NextPriors]_vars

\* C7: h*w priors per batch item, the prior at flattened index i*w + j being
\* (j*stride, i*stride, stride, stride), the same for every batch item.
C7_Priors ==
    pc = "done" =>
      LET h == args.featmap_size[1]
          w == args.featmap_size[2]
      IN  /\ Len(ret) = args.batch_size
          /\ \A b \in 1..args.batch_size :
                /\ Len(ret[b]) = h * w
                /\ ret[b] = ret[1]
                /\ \A i \in 0..(h - 1) : \A j \in 0..(w - 1) :
                      ret[b][i * w + j + 1] =
                         <<j * args.stride, i * args.stride, args.stride, args.stride>>

\* C7's case: several batch items, a feature map with h # w and several
\* rows and columns
C7_Witness ==
    /\ pc = "done"
    /\ args.batch_size > 1
    /\ args.featmap_size[1] > 1 /\ args.featmap_size[2] > args.featmap_size[1]
    /\ Len(ret[2]) = args.featmap_size[1] * args.featmap_size[2]

(***************************************************************************)
(* Integral, lines 282-300.  The entries of the distribution tensor are    *)
(* the fractions x / ProbDen; the result of forward is held the same way.  *)
(***************************************************************************)
\* torch.linspace starting one too high
linspace_from_one(start, end, steps) ==
    Tup([k \in 1..steps |->
            IF steps = 1 THEN start + 1
            ELSE start + 1 + ((k - 1) * (end - start)) \div (steps - 1)])

\* torch.linspace(start, end, steps), for steps dividing end - start
linspace(start, end, steps) ==
    Tup([k \in 1..steps |->
            IF steps = 1 THEN start
            ELSE start + ((k - 1) * (end - start)) \div (steps - 1)])

\* line 289-290: the buffer `project`
project(reg_max) == linspace(0, reg_max, reg_max + 1)

\* the dot product of a row with the column y
RECURSIVE dot(_, _, _)
dot(row, y, n) == IF n = 0 THEN 0 ELSE dot(row, y, n - 1) + row[n] * y[n]

\* Integral.forward(x), x of shape (b, hw, 4, reg_max + 1)
Integral_forward(x, reg_max) ==
    LET b    == Len(x)
        hw   == IF b = 0 THEN 0 ELSE Len(x[1])
        \* x.reshape(b * hw * 4, reg_max + 1)
        rows == Tup([r \in 1..(b * hw * 4) |->
                        x[((r - 1) \div (hw * 4)) + 1]
                         [(((r - 1) % (hw * 4)) \div 4) + 1]
                         [((r - 1) % 4) + 1]])
        y    == project(reg_max)
        \* torch.matmul(x, y)
        prod == Tup([r \in 1..Len(rows) |-> dot(rows[r], y, reg_max + 1)])
    IN  \* .reshape(b, hw, 4)
        Tup([i \in 1..b |->
                Tup([l \in 1..hw |->
                        Tup([sd \in 1..4 |-> prod[((i - 1) * hw + (l - 1)) * 4 + sd]])])])

(***************************************************************************)
(* Specification SpecIntegral: one call of Integral.forward.               *)
(***************************************************************************)
\* reg_max of the model (16 by default in the source)
RegMax == 2
\* the denominator of the probabilities
ProbDen == 2

Bins == 0..RegMax

RECURSIVE SumTo(_, _)
SumTo(d, n) == IF n = 0 THEN 0 ELSE SumTo(d, n - 1) + d[n]

\* every distribution over the bins: non-negative entries with sum 1
Dists == {d \in [1..(RegMax + 1) -> 0..ProbDen] : SumTo(d, RegMax + 1) = ProbDen}

\* all the mass on bin k
OneHot(k) == [n \in 1..(RegMax + 1) |-> IF n = k + 1 THEN ProbDen ELSE 0]

\* the lowest bin, the highest bin, and a distribution spread over both
DistPool == {OneHot(0), OneHot(RegMax),
             [n \in 1..(RegMax + 1) |->
                 IF n = 1 THEN 1 ELSE IF n = RegMax + 1 THEN ProbDen - 1 ELSE 0]}

\* one location with any two distributions on its first sides, and two
\* locations (in one image or in two) over DistPool
InitIntegral ==
    /\ pc = "init"
    /\ \/ \E p1, p2 \in Dists, p3, p4 \in DistPool :
             args = [x |-> <<<<<<p1, p2, p3, p4>>>>>>, reg_max |-> RegMax]
       \/ \E l1, l2 \in SeqsOf(DistPool, 4) :
             \/ args = [x |-> <<<<l1, l2>>>>, reg_max |-> RegMax]
             \/ args = [x |-> <<<<l1>>, <<l2>>>>, reg_max |-> RegMax]
    /\ locals = None
    /\ ret = None
    /\ feat_size = None
    /\ mlvl_priors = None

CallIntegral ==
    /\ pc = "init"
    /\ ret' = Integral_forward(args.x, args.reg_max)
    /\ pc' = "done"
    /\ UNCHANGED <<args, locals, feat_size, mlvl_priors>>

NextIntegral == CallIntegral

SpecIntegral == InitIntegral /\ [][NextIntegral]_vars

\* the sum over the bins k of k * d(k), as a fraction over ProbDen
RECURSIVE Expectation(_, _)
Expectation(d, k) == IF k < 0 THEN 0 ELSE Expectation(d, k - 1) + k * d[k + 1]

\* C8: for every location and side the result is the sum over the bins of
\* k * p(k); it lies in [0, reg_max], is 0 with all the mass on bin 0 and
\* reg_max with all the mass on bin reg_max.
C8_Integral ==
    pc = "done" =>
      /\ Len(ret) = Len(args.x)
      /\ \A i \in 1..Len(args.x) :
            /\ Len(ret[i]) = Len(args.x[i])
            /\ \A l \in 1..Len(args.x[i]) : \A sd \in 1..4 :
                  LET d == args.x[i][l][sd]
                      v == ret[i][l][sd]
                  IN  /\ v = Expectation(d, args.reg_max)
                      /\ 0 <= v /\ v <= args.reg_max * ProbDen
                      /\ (d = OneHot(0)) => v = 0
                      /\ (d = OneHot(args.reg_max)) => v = args.reg_max * ProbDen

\* C8's case: two locations, one side with all its mass on the highest bin,
\* one on the lowest, one spread over several bins
C8_Witness ==
    /\ pc = "done"
    /\ \E i \in 1..Len(args.x) : Len(args.x[i]) > 1
    /\ \E i \in 1..Len(args.x) : \E l \in 1..Len(args.x[i]) :
          /\ args.x[i][l][1] = OneHot(args.reg_max)
          /\ ret[i][l][1] = args.reg_max * ProbDen
          /\ args.x[i][l][2] = OneHot(0)
          /\ ret[i][l][2] = 0
          /\ args.x[i][l][3] \notin {OneHot(k) : k \in Bins}
          /\ ret[i][l][3] > 0

(***************************************************************************)
(* Floating point.  A tensor's dtype is the number of significant bits of  *)
(* its format; its values are whole multiples of the model's unit, and an  *)
(* operation's result is rounded to the nearest value of the format (ties  *)
(* to the even significand), as IEEE 754 arithmetic does.                  *)
(***************************************************************************)
Abs(a) == IF a < 0 THEN -a ELSE a

RECURSIVE Pow2(_)
Pow2(n) == IF n <= 0 THEN 1 ELSE 2 * Pow2(n - 1)

\* the number of bits of n >= 0
RECURSIVE BitLen(_)
BitLen(n) == IF n = 0 THEN 0 ELSE 1 + BitLen(n \div 2)

\* the spacing of the dtype's values around a
Ulp(a, dtype) == Pow2(BitLen(Abs(a)) - dtype)

\* a rounded to the dtype
fl(a, dtype) ==
    LET u  == Ulp(a, dtype)
        lo == (Abs(a) \div u) * u
        r  == Abs(a) - lo
        m  == IF 2 * r < u THEN lo
              ELSE IF 2 * r > u THEN lo + u
              ELSE IF (lo \div u) % 2 = 0 THEN lo ELSE lo + u
    IN  IF a < 0 THEN -m ELSE m

Representable(a, dtype) == fl(a, dtype) = a

\* tensor - tensor, tensor + tensor (elementwise, on one entry)
fsub(a, b, dtype) == fl(a - b, dtype)
fadd(a, b, dtype) == fl(a + b, dtype)

\* Tensor.clamp(min=lo, max=hi)
clamp(a, lo, hi) == Min2(Max2(a, lo), hi)

(***************************************************************************)
(* distance2bbox, lines 252-264, and bbox2distance, lines 267-279.         *)
(***************************************************************************)
\* distance2bbox with the two dimensions of max_shape exchanged
distance2bbox_swapped(points, distance, max_shape, dtype) ==
    Tup([i \in 1..Len(points) |->
        LET x1 == fsub(points[i][1], distance[i][1], dtype)
            y1 == fsub(points[i][2], distance[i][2], dtype)
            x2 == fadd(points[i][1], distance[i][3], dtype)
            y2 == fadd(points[i][2], distance[i][4], dtype)
        IN  IF max_shape # None
            THEN <<clamp(x1, 0, max_shape.v[1]), clamp(y1, 0, max_shape.v[2]),
                   clamp(x2, 0, max_shape.v[1]), clamp(y2, 0, max_shape.v[2])>>
            ELSE <<x1, y1, x2, y2>>])

distance2bbox(points, distance, max_shape, dtype) ==
    Tup([i \in 1..Len(points) |->
        LET x1 == fsub(points[i][1], distance[i][1], dtype)
            y1 == fsub(points[i][2], distance[i][2], dtype)
            x2 == fadd(points[i][1], distance[i][3], dtype)
            y2 == fadd(points[i][2], distance[i][4], dtype)
        IN  IF max_shape # None
            THEN <<clamp(x1, 0, max_shape.v[2]), clamp(y1, 0, max_shape.v[1]),
                   clamp(x2, 0, max_shape.v[2]), clamp(y2, 0, max_shape.v[1])>>
            ELSE <<x1, y1, x2, y2>>])

bbox2distance(points, bbox, max_dis, eps, dtype) ==
    Tup([i \in 1..Len(points) |->
        LET left   == fsub(points[i][1], bbox[i][1], dtype)
            top    == fsub(points[i][2], bbox[i][2], dtype)
            right  == fsub(bbox[i][3], points[i][1], dtype)
            bottom == fsub(bbox[i][4], points[i][2], dtype)
        IN  IF max_dis # None
            THEN LET hi == fl(max_dis.v - eps, dtype)
                 IN  <<clamp(left, 0, hi), clamp(top, 0, hi),
                       clamp(right, 0, hi), clamp(bottom, 0, hi)>>
            ELSE <<left, top, right, bottom>>])

(***************************************************************************)
(* Specification SpecCodec: bbox2distance, then distance2bbox on its       *)
(* result, for one point and one box.                                      *)
(***************************************************************************)
\* the significant bits of the model's floating-point format (24 in
\* torch.float32)
Precision == 3

Some(v) == [none |-> FALSE, v |-> v]

PointPool == {0, 12, 24}
LowPool == {0, 1, 5}
HighPool == {12, 14, 28}
MaxDisPool == {None, Some(32), Some(16)}
EpsPool == {1}
\* max_shape is (height, width)
MaxShapePool == {None, Some(<<32, 32>>), Some(<<16, 32>>)}

InitCodec ==
    /\ pc = "init"
    /\ \E px, py \in PointPool, x1, y1 \in LowPool, x2, y2 \in HighPool,
          md \in MaxDisPool, e \in EpsPool, ms \in MaxShapePool :
          args = [points |-> <<<<px, py>>>>, bbox |-> <<<<x1, y1, x2, y2>>>>,
                  max_dis |-> md, eps |-> e, max_shape |-> ms,
                  dtype |-> Precision]
    /\ locals = None
    /\ ret = None
    /\ feat_size = None
    /\ mlvl_priors = None

CallCodec ==
    /\ pc = "init"
    /\ \E d \in {bbox2distance(args.points, args.bbox, args.max_dis, args.eps,
                               args.dtype)} :
          /\ locals' = [distance |-> d]
          /\ ret' = distance2bbox(args.points, d, args.max_shape, args.dtype)
    /\ pc' = "done"
    /\ UNCHANGED <<args, feat_size, mlvl_priors>>

NextCodec == CallCodec

SpecCodec == InitCodec /\ [][NextCodec]_vars

\* the four differences between the point and the box, not rounded
Diffs == <<args.points[1][1] - args.bbox[1][1], args.points[1][2] - args.bbox[1][2],
           args.bbox[1][3] - args.points[1][1], args.bbox[1][4] - args.points[1][2]>>

\* no clamp is triggered: max_dis and max_shape are not given, or every
\* distance and every decoded coordinate is inside its clamp range
NoClamping ==
    /\ args.max_dis # None =>
          \A k \in 1..4 : 0 <= fl(Diffs[k], args.dtype)
                          /\ fl(Diffs[k], args.dtype) <= args.max_dis.v - args.eps
    /\ args.max_shape # None =>
          /\ \A k \in {1, 3} : 0 <= args.bbox[1][k] /\ args.bbox[1][k] <= args.max_shape.v[2]
          /\ \A k \in {2, 4} : 0 <= args.bbox[1][k] /\ args.bbox[1][k] <= args.max_shape.v[1]

\* C10 as stated: with no clamp triggered, distance2bbox(p, bbox2distance(p,
\* b)) equals b exactly.
C10_AsStated ==
    (pc = "done" /\ NoClamping) => ret = args.bbox

\* C10 amended: with no clamp triggered and the four differences between p
\* and b exact in the tensors' floating-point format, distance2bbox(p,
\* bbox2distance(p, b)) equals b exactly.
C10_RoundTrip ==
    (pc = "done" /\ NoClamping
       /\ \A k \in 1..4 : Representable(Diffs[k], args.dtype))
    => ret = args.bbox

\* C10's case: both clamps given and not triggered, the point inside the
\* box and away from its sides, the differences exact
C10_Witness ==
    /\ pc = "done"
    /\ args.max_dis # None /\ args.max_shape # None
    /\ NoClamping
    /\ \A k \in 1..4 : Diffs[k] > 0 /\ Representable(Diffs[k], args.dtype)
    /\ ret = args.bbox

(***************************************************************************)
(* postprocess, lines 190-236.                                             *)
(*                                                                         *)
(* A Python value is a tensor or a plain int: [kind, v].  BoxList (of      *)
(* ..utils) keeps its box tensor, size and mode, and add_field stores the  *)
(* field's data as given.  InstanceData is a record of the attributes set. *)
(***************************************************************************)
PyInt(a) == [kind |-> "int", v |-> a]
PyTensor(t) == [kind |-> "tensor", v |-> t]

BoxList(bbox, size, mode) ==
    [bbox |-> bbox, size |-> size, mode |-> mode, extra_fields |-> [f \in {} |-> None]]

add_field(boxlist, field, field_data) ==
    [boxlist EXCEPT !.extra_fields =
        [f \in (DOMAIN boxlist.extra_fields) \cup {field} |->
            IF f = field THEN field_data ELSE boxlist.extra_fields[f]]]

\* line 204: the max_num postprocess passes to multiclass_nms
PostMaxNum == 500

\* res[:, k] of a two-dimensional tensor (k counted from 0)
column(rows, k) == Tup([r \in 1..Len(rows) |-> rows[r][k + 1]])

\* tensor + a, tensor - a
add_scalar(t, a) == Tup([r \in 1..Len(t) |-> t[r] + a])

\* lines 202-207: the detections of one image: the boxes (4 columns, or the
\* 5 of multiclass_nms's empty result), a column of ones, the scores, the
\* labels
detections(r) ==
    Tup([k \in 1..Len(r.bboxes) |-> r.bboxes[k] \o <<1, r.scores[k], r.labels[k]>>])

\* lines 202-207: what an image's call of multiclass_nms leaves in output[i],
\* and the triple it returned
nms_output(r) ==
    [res |-> Some(detections(r)),
     nms |-> Some([bboxes |-> r.bboxes, scores |-> r.scores, labels |-> r.labels])]

\* lines 198-212: the first loop; output[i] stays None for an image
\* without locations
first_loop(cls_scores, bbox_preds, conf_thre, nms_thre, orders) ==
    Tup([i \in 1..Len(bbox_preds) |->
        IF Len(bbox_preds[i]) = 0
        THEN [res |-> None, nms |-> None]
        ELSE nms_output(multiclass_nms(bbox_preds[i], cls_scores[i],
                                       Len(cls_scores[i][1]), conf_thre, nms_thre,
                                       PostMaxNum, None, orders[i]))])

\* lines 215-228: output[i] as a BoxList
to_boxlist(res, imgs, i) ==
    IF res = None \/ imgs = None
    THEN add_field(add_field(add_field(BoxList(<<>>, <<0, 0>>, "xyxy"),
             "objectness", PyInt(0)), "scores", PyInt(0)), "labels", PyInt(-1))
    ELSE LET img_h == imgs.v[i].ori_shape[1]
             img_w == imgs.v[i].ori_shape[2]
             bbox  == Tup([r \in 1..Len(res.v) |-> SubSeq(res.v[r], 1, 4)])
         IN  add_field(add_field(add_field(BoxList(bbox, <<img_w, img_h>>, "xyxy"),
                 "objectness", PyTensor(column(res.v, 4))),
                 "scores", PyTensor(column(res.v, 5))),
                 "labels", PyTensor(add_scalar(column(res.v, 6), 1)))

\* line 233: value.to(int) exists for a tensor only; a plain int has no
\* attribute `to`
has_to(value) == value.kind = "tensor"

\* lines 231-235: the InstanceData of one BoxList
to_instance_data(boxlist) ==
    [bboxes |-> boxlist.bbox,
     labels |-> add_scalar(boxlist.extra_fields["labels"].v, -1),
     scores |-> boxlist.extra_fields["scores"].v]

\* lines 229-236: the third loop over the BoxLists: the exception raised
\* ("none" if none) and the list returned
result_list(output) ==
    IF \E i \in 1..Len(output) : ~has_to(output[i].extra_fields["labels"])
    THEN [raised |-> "AttributeError", value |-> <<>>]
    ELSE [raised |-> "none",
          value |-> Tup([i \in 1..Len(output) |-> to_instance_data(output[i])])]

\* lines 214-236: the second and third loops, from what the first left
transfer(first, imgs) ==
    [out |-> result_list(Tup([i \in 1..Len(first) |-> to_boxlist(first[i].res, imgs, i)])),
     nms |-> Tup([i \in 1..Len(first) |-> first[i].nms])]

\* postprocess, given the orders batched_nms's sorts produced: the
\* exception raised, the returned list, and the triples multiclass_nms
\* returned
postprocess(cls_scores, bbox_preds, num_classes, conf_thre, nms_thre, imgs, orders) ==
    transfer(first_loop(cls_scores, bbox_preds, conf_thre, nms_thre, orders), imgs)

\* the orders the sorts of the images' batched_nms calls may produce
RECURSIVE post_orders(_, _, _, _)
post_orders(cls_scores, bbox_preds, conf_thre, k) ==
    IF k = 0 THEN {<<>>}
    ELSE LET mine == IF Len(bbox_preds[k]) = 0 THEN {<<>>}
                     ELSE nms_orders(bbox_preds[k], cls_scores[k],
                                     Len(cls_scores[k][1]), conf_thre, None)
         IN  {Append(t, o) : t \in post_orders(cls_scores, bbox_preds, conf_thre, k - 1),
                             o \in mine}

(***************************************************************************)
(* Specification SpecPost: one call of postprocess.                        *)
(***************************************************************************)
PostBoxPool == {BoxA, BoxN}
\* a location whose scores do not pass conf_thre, and one whose scores do
PostScoreRows == {<<5, 5>>, <<9, 8>>}
\* conf_thre in tenths, nms_thre as a fraction
PostConfThre == 5
PostNmsThre == <<1, 2>>
\* an image's metadata
Meta(sf) == [ori_shape |-> <<480, 640>>, scale_factor |-> sf]

InitPost ==
    /\ pc = "init"
    /\ \E b \in 1..MaxBatch, n \in 0..MaxLoc :
       \E bp \in SeqsOf(SeqsOf(PostBoxPool, n), b),
          cs \in SeqsOf(SeqsOf(PostScoreRows, n), b),
          im \in {None, Some([i \in 1..b |-> Meta(<<1, 1>>)])} :
          args = [cls_scores |-> cs, bbox_preds |-> bp, num_classes |-> NumClasses,
                  conf_thre |-> PostConfThre, nms_thre |-> PostNmsThre, imgs |-> im]
    /\ locals = None
    /\ ret = None
    /\ feat_size = None
    /\ mlvl_priors = None

CallPostprocess ==
    /\ pc = "init"
    /\ \E orders \in post_orders(args.cls_scores, args.bbox_preds, args.conf_thre,
                                 Len(args.bbox_preds)) :
       \E r \in {postprocess(args.cls_scores, args.bbox_preds, args.num_classes,
                             args.conf_thre, args.nms_thre, args.imgs, orders)} :
          /\ locals' = [nms |-> r.nms]
          /\ ret' = r.out
    /\ pc' = "done"
    /\ UNCHANGED <<args, feat_size, mlvl_priors>>

NextPost == CallPostprocess

SpecPost == InitPost /\ [][NextPost]_vars

\* C5: postprocess returns one record per image and never fails on a
\* degenerate case: an image for which the selector returned zero boxes, an
\* image with zero locations, and no image metadata (imgs is None) each give
\* an empty detection record.
C5_NeverFails ==
    pc = "done" =>
      /\ ret.raised = "none"
      /\ Len(ret.value) = Len(args.bbox_preds)
      /\ \A i \in 1..Len(ret.value) :
            (\/ args.imgs = None
             \/ Len(args.bbox_preds[i]) = 0
             \/ (locals.nms[i] # None /\ Len(locals.nms[i].v.bboxes) = 0))
            => /\ Len(ret.value[i].bboxes) = 0
               /\ Len(ret.value[i].scores) = 0
               /\ Len(ret.value[i].labels) = 0

(***************************************************************************)
(* ZeroHead.predict, lines 432-482.                                        *)
(*                                                                         *)
(* A feature map is known by its shape (batch, channels, h, w).  What the  *)
(* convolutions of forward_single (lines 484-511) put out is an input of   *)
(* the call: per level, class scores in hundredths and, for each side of   *)
(* each location, a distribution over the bins.  Box coordinates are       *)
(* float32 values; after the rescaling they are fractions <<num, den>> in  *)
(* lowest terms.                                                           *)
(***************************************************************************)
\* lines 312, 316: three levels, strides and input channels doubling
NumLevels == 3
strides == [lv \in 1..NumLevels |-> 8 * Pow2(lv - 1)]
in_channels == [lv \in 1..NumLevels |-> 128 * Pow2(lv - 1)]
\* lines 319-320, scores in hundredths
nms_conf_thre == 5
nms_iou_thre == <<7, 10>>
\* line 442: priors are made as torch.float32, 24 significant bits
Float32 == 24

RECURSIVE GCD(_, _)
GCD(a, b) == IF b = 0 THEN a ELSE GCD(b, a % b)

\* the quotient a / s as a fraction in lowest terms
Rat(a, s) == LET g == GCD(Abs(a), s) IN <<a \div g, s \div g>>

\* torch.cat(tensors, dim=1) of per-level tensors (image, location, ...)
RECURSIVE cat_dim1(_, _)
cat_dim1(tensors, k) ==
    IF k = 1 THEN tensors[1]
    ELSE LET head == cat_dim1(tensors, k - 1)
         IN  Tup([i \in 1..Len(head) |-> head[i] \o tensors[k][i]])

\* line 437: feat_size[0] != x[0].shape. A tensor never equals a torch.Size
shape_differs(cached, shape) ==
    IF cached.kind = "tensor" THEN TRUE ELSE cached.v # shape

\* lines 438-446: the priors of every level for the shapes of x, joined
fresh_priors(x) ==
    cat_dim1(Tup([lv \in 1..Len(x) |->
                 get_single_level_center_priors(x[lv][1], <<x[lv][3], x[lv][4]>>,
                                                strides[lv])]), Len(x))

\* lines 468-480 with the two scale factors exchanged
rescale_swapped(result, scale_factor) ==
    [result EXCEPT !.bboxes =
        Tup([k \in 1..Len(result.bboxes) |->
            <<Rat(result.bboxes[k][1], scale_factor[1]),
              Rat(result.bboxes[k][2], scale_factor[2]),
              Rat(result.bboxes[k][3], scale_factor[1]),
              Rat(result.bboxes[k][4], scale_factor[2])>>])]

\* lines 468-480: x1, x2 over scale_factor[1] and y1, y2 over
\* scale_factor[0] (indices counted from 0)
rescale(result, scale_factor) ==
    [result EXCEPT !.bboxes =
        Tup([k \in 1..Len(result.bboxes) |->
            <<Rat(result.bboxes[k][1], scale_factor[2]),
              Rat(result.bboxes[k][2], scale_factor[1]),
              Rat(result.bboxes[k][3], scale_factor[2]),
              Rat(result.bboxes[k][4], scale_factor[1])>>])]

\* line 461: the distances of image i times the strides of its priors.  The
\* distributions drawn have whole expectations, so the division by ProbDen
\* is exact.
scaled(dis, priors, i) ==
    Tup([l \in 1..Len(dis[i]) |->
        Tup([s \in 1..4 |-> (dis[i][l][s] * priors[i][l][3]) \div ProbDen])])

\* line 462: the boxes about the priors' centres
boxes_about(dis, priors) ==
    Tup([i \in 1..Len(dis) |->
        distance2bbox(Tup([l \in 1..Len(dis[i]) |-> SubSeq(priors[i][l], 1, 2)]),
                      scaled(dis, priors, i), None, Float32)])

\* lines 461-462: batch bbox decode
decode(priors, dists) == boxes_about(Integral_forward(dists, RegMax), priors)

\* lines 437-447: the cache (feat_size, mlvl_priors) after the check
\* against the first level's shape
refresh_priors(cache, x) ==
    IF shape_differs(cache.feat_size[1], x[1])
    THEN [feat_size |-> [cache.feat_size EXCEPT ![1] = [kind |-> "size", v |-> x[1]]],
          mlvl_priors |-> fresh_priors(x)]
    ELSE cache

\* lines 449-459: the levels' outputs joined; the scores keep the first
\* num_classes channels
joined_outputs(outs) ==
    [cls_scores |-> cat_dim1(Tup([lv \in 1..Len(outs) |->
                        Tup([i \in 1..Len(outs[lv].cls) |->
                            Tup([l \in 1..Len(outs[lv].cls[i]) |->
                                SubSeq(outs[lv].cls[i][l], 1, NumClasses)])])]), Len(outs)),
     dists |-> cat_dim1(Tup([lv \in 1..Len(outs) |-> outs[lv].reg]), Len(outs))]

\* line 461: the product broadcasts only if priors and predictions have as
\* many locations (neither count is 1 here)
broadcasts(priors, dists) == Len(priors[1]) = Len(dists[1])

\* lines 468-481: the results of postprocess, rescaled
rescaled(now, post, batch_data_samples) ==
    [cache |-> now, raised |-> post.out.raised,
     value |-> Tup([i \in 1..Len(post.out.value) |->
                   rescale(post.out.value[i], batch_data_samples[i].scale_factor)]),
     selected |-> post.nms]

\* lines 464-482: postprocess and rescaling with nms on, the decoded
\* predictions themselves with nms off
select(now, cls_scores, bbox_preds, use_nms, batch_data_samples, orders) ==
    IF ~use_nms
    THEN [cache |-> now, raised |-> "none", value |-> <<cls_scores, bbox_preds>>,
          selected |-> <<>>]
    ELSE rescaled(now, postprocess(cls_scores, bbox_preds, NumClasses, nms_conf_thre,
                                   nms_iou_thre, Some(batch_data_samples), orders),
                  batch_data_samples)

\* lines 461-482, from the cache as refreshed and the joined outputs
decode_and_select(now, j, use_nms, batch_data_samples, orders) ==
    IF ~broadcasts(now.mlvl_priors, j.dists)
    THEN [cache |-> now, raised |-> "RuntimeError", value |-> <<>>, selected |-> <<>>]
    ELSE select(now, j.cls_scores, decode(now.mlvl_priors, j.dists), use_nms,
                batch_data_samples, orders)

\* predict from the head's cache, its nms flag, the feature shapes x, the
\* per-level outputs of forward_single, the data samples and the orders of
\* the NMS sorts: the cache afterwards, the exception raised ("none" if
\* none), the value returned and what multiclass_nms returned per image
predict(cache, use_nms, x, outs, batch_data_samples, orders) ==
    decode_and_select(refresh_priors(cache, x), joined_outputs(outs), use_nms,
                      batch_data_samples, orders)

\* the orders the NMS sorts may produce, from the cache as refreshed and
\* the joined outputs
orders_of(now, j, use_nms) ==
    IF ~use_nms \/ ~broadcasts(now.mlvl_priors, j.dists) THEN {<<>>}
    ELSE post_orders(j.cls_scores, decode(now.mlvl_priors, j.dists),
                     nms_conf_thre, Len(j.dists))

\* the orders the NMS sorts of one predict call may produce
predict_orders(cache, use_nms, x, outs) ==
    orders_of(refresh_priors(cache, x), joined_outputs(outs), use_nms)

(***************************************************************************)
(* Specification SpecPredict: a head, constructed with nms on or off, and  *)
(* any sequence of predict calls on it.                                    *)
(***************************************************************************)
\* (h, w) of a level's feature map
ShapePool == {<<1, 1>>, <<1, 2>>}
\* what the network's weights make of the features
NetSeeds == {0, 1, 2}

\* the score of class c (from 0; channel num_classes is the extra one) at
\* location l of level lv of image i: seed 0 puts every score under
\* nms_conf_thre, seed 1 gives every candidate a score of its own above it,
\* seed 2 does so for class 0 of the first image only
NetScore(seed, i, lv, l, c) ==
    LET own == 90 - 20 * (lv - 1) - 7 * (l - 1) - 3 * c - (i - 1)
    IN  CASE seed = 0 -> 1
          [] seed = 1 -> own
          [] OTHER    -> IF i = 1 /\ c = 0 THEN own ELSE 1

\* the bin that holds all the mass of every side at level lv: bin 1, or
\* with seed 2 bin 2 at the first level, so boxes of the first two levels
\* coincide
NetBin(seed, lv) == IF seed = 2 /\ lv = 1 THEN 2 ELSE 1

\* what forward_single returns for a level of shape (b, c, h, w)
forward_single(shape, lv, seed) ==
    [cls |-> Tup([i \in 1..shape[1] |-> Tup([l \in 1..(shape[3] * shape[4]) |->
                 Tup([c \in 1..(NumClasses + 1) |-> NetScore(seed, i, lv, l, c - 1)])])]),
     reg |-> Tup([i \in 1..shape[1] |-> Tup([l \in 1..(shape[3] * shape[4]) |->
                 Tup([s \in 1..4 |-> OneHot(NetBin(seed, lv))])])])]

\* the data samples of a batch: (vertical, horizontal) scale factors
\* differing in each image and between the images
Samples(b) == Tup([i \in 1..b |-> Meta(<<i + 1, 2 * i>>)])

InitPredict ==
    /\ pc = "init"
    /\ \E use_nms \in BOOLEAN : args = [nms |-> use_nms]
    /\ locals = None
    /\ ret = None
    /\ feat_size = Tup([lv \in 1..NumLevels |-> PyTensor(<<0, 0, 0, 0>>)])
    /\ mlvl_priors = None

CallPredict ==
    /\ pc \in {"init", "done"}
    /\ \E b \in 1..MaxBatch, hw \in SeqsOf(ShapePool, NumLevels),
          seed \in NetSeeds :
       \E x \in {Tup([lv \in 1..NumLevels |-> <<b, in_channels[lv], hw[lv][1], hw[lv][2]>>])} :
       \E outs \in {Tup([lv \in 1..NumLevels |-> forward_single(x[lv], lv, seed)])} :
       \E orders \in predict_orders([feat_size |-> feat_size, mlvl_priors |-> mlvl_priors],
                                    args.nms, x, outs) :
       \E r \in {predict([feat_size |-> feat_size, mlvl_priors |-> mlvl_priors],
                         args.nms, x, outs, Samples(b), orders)} :
          /\ args' = [nms |-> args.nms, x |-> x, batch_data_samples |-> Samples(b),
                      rescale |-> FALSE]
          /\ locals' = [selected |-> r.selected]
          /\ ret' = [raised |-> r.raised, value |-> r.value]
          /\ feat_size' = r.cache.feat_size
          /\ mlvl_priors' = r.cache.mlvl_priors
    /\ pc' = "done"

NextPredict == CallPredict

SpecPredict == InitPredict /\ [][NextPredict]_vars

\* the number of locations of the feature maps x
RECURSIVE Locations(_, _)
Locations(x, k) == IF k = 0 THEN 0 ELSE Locations(x, k - 1) + x[k][3] * x[k][4]

\* C6: after every predict call the priors the call decoded with are the
\* priors made fresh for each level's current (batch, h, w) and stride,
\* joined in stride order, with sum of h*w locations; a change of any
\* level's shape or of the batch size between calls leaves no stale priors.
C6_PriorsFresh ==
    pc = "done" =>
      /\ mlvl_priors = fresh_priors(args.x)
      /\ \A i \in 1..Len(mlvl_priors) : Len(mlvl_priors[i]) = Locations(args.x, Len(args.x))

\* C9: with nms on, every returned box is the NMS-selected box with x1, x2
\* divided by the horizontal scale factor (the second of the image's pair)
\* and y1, y2 by the vertical one (the first); scores and labels are the
\* NMS-selected ones.
C9_Rescale ==
    (pc = "done" /\ args.nms /\ ret.raised = "none") =>
      \A i \in 1..Len(ret.value) :
        LET sel == locals.selected[i].v
            sf  == args.batch_data_samples[i].scale_factor
            out == ret.value[i]
        IN  /\ Len(out.bboxes) = Len(sel.bboxes)
            /\ \A k \in 1..Len(sel.bboxes) :
                  /\ out.bboxes[k][1][1] * sf[2] = sel.bboxes[k][1] * out.bboxes[k][1][2]
                  /\ out.bboxes[k][3][1] * sf[2] = sel.bboxes[k][3] * out.bboxes[k][3][2]
                  /\ out.bboxes[k][2][1] * sf[1] = sel.bboxes[k][2] * out.bboxes[k][2][2]
                  /\ out.bboxes[k][4][1] * sf[1] = sel.bboxes[k][4] * out.bboxes[k][4][2]
                  /\ \A s \in 1..4 : out.bboxes[k][s][2] > 0
            /\ out.scores = sel.scores
            /\ out.labels = sel.labels

\* a call returned a box whose x and y coordinates differ, for an image
\* whose two scale factors differ
C9_Witness ==
    /\ pc = "done" /\ args.nms /\ ret.raised = "none"
    /\ \E i \in 1..Len(ret.value) :
          /\ args.batch_data_samples[i].scale_factor[1] # args.batch_data_samples[i].scale_factor[2]
          /\ \E k \in 1..Len(ret.value[i].bboxes) :
                /\ locals.selected[i].v.bboxes[k][3] # locals.selected[i].v.bboxes[k][4]
                /\ locals.selected[i].v.bboxes[k][3] > 0
                /\ locals.selected[i].v.bboxes[k][4] > 0
                /\ \E s \in 1..4 : ret.value[i].bboxes[k][s][2] > 1

(***************************************************************************)
(* Specification SpecSelect: one call of multiclass_nms with class-        *)
(* agnostic boxes (n, 4), with and without score_factors.                  *)
(***************************************************************************)
\* boxes that differ between locations
SelectBoxPool == {BoxA, BoxN}
\* the factor of a location (a whole multiplier, so products are exact)
FactorPool == {1, 2}

InitSelect ==
    /\ pc = "init"
    /\ \E n \in 0..MaxLoc :
       \E b \in SeqsOf(SelectBoxPool, n), sc \in SeqsOf(ScoreRows, n),
          t \in ScoreThrPool, cfg \in NmsCfgPool,
          sf \in {None} \cup {Some(f) : f \in SeqsOf(FactorPool, n)} :
          args = [multi_bboxes |-> b, multi_scores |-> sc,
                  num_classes |-> NumClasses, score_thr |-> t,
                  iou_thr |-> cfg[1], max_num |-> cfg[2],
                  score_factors |-> sf]
    /\ locals = None
    /\ ret = None
    /\ feat_size = None
    /\ mlvl_priors = None

NextSelect == CallMulticlassNms

SpecSelect == InitSelect /\ [][NextSelect]_vars

\* the (location, class) pairs of the call, 0-based as in the source
InputPairs ==
    {<<i, c>> : i \in 0..(Len(args.multi_scores) - 1), c \in 0..(args.num_classes - 1)}

\* the score of a pair as given, and the pairs over the threshold
PairScore(pr) == args.multi_scores[pr[1] + 1][pr[2] + 1]

PassingPairs == {pr \in InputPairs : PairScore(pr) > args.score_thr}

\* the factor of a pair's location, 1 without score_factors
PairFactor(pr) ==
    IF args.score_factors = None THEN 1 ELSE args.score_factors.v[pr[1] + 1]

\* returned detection k is pair pr, its score taken as given
IsPairAsGiven(k, pr) ==
    /\ ret.labels[k] = pr[2]
    /\ ret.scores[k] = PairScore(pr)
    /\ ret.bboxes[k] = args.multi_bboxes[pr[1] + 1]

\* returned detection k is pair pr, its score multiplied by the factor
IsPair(k, pr) ==
    /\ ret.labels[k] = pr[2]
    /\ ret.scores[k] = PairScore(pr) * PairFactor(pr)
    /\ ret.bboxes[k] = args.multi_bboxes[pr[1] + 1]

Returned == 1..Len(ret.bboxes)

\* C11 as stated: every returned detection comes from one pair (i, c) with
\* scores[i, c] > score_thr, with label c, score scores[i, c] and the box of
\* location i; a pair whose score equals score_thr is never returned.
C11_AsStated ==
    pc = "done" =>
      /\ \A k \in Returned : \E pr \in PassingPairs : IsPairAsGiven(k, pr)
      /\ \A k \in Returned :
            Cardinality({m \in Returned : ret.labels[m] = ret.labels[k]
                                          /\ ret.scores[m] = ret.scores[k]
                                          /\ ret.bboxes[m] = ret.bboxes[k]})
            <= Cardinality({pr \in PassingPairs : IsPairAsGiven(k, pr)})

\* C11 amended: every returned detection comes from one pair (i, c) with
\* scores[i, c] > score_thr (each class compared on its own, before any
\* factor is applied), with label c, the box of location i and the score
\* scores[i, c], times score_factors[i] when score_factors is given; no two
\* returned detections come from the same pair, and a pair whose score
\* equals score_thr is never returned.
C11_Provenance ==
    pc = "done" =>
      /\ \A k \in Returned : \E pr \in PassingPairs : IsPair(k, pr)
      /\ \A k \in Returned :
            Cardinality({m \in Returned : ret.labels[m] = ret.labels[k]
                                          /\ ret.scores[m] = ret.scores[k]
                                          /\ ret.bboxes[m] = ret.bboxes[k]})
            <= Cardinality({pr \in PassingPairs : IsPair(k, pr)})

\* C11's case: score_factors given, two locations with different boxes; at
\* one location a class passes and the other class sits exactly on the
\* threshold, its product with the factor above it; detections of both
\* classes are returned
C11_Witness ==
    /\ pc = "done"
    /\ args.score_factors # None
    /\ Len(args.multi_bboxes) >= 2
    /\ args.multi_bboxes[1] # args.multi_bboxes[2]
    /\ \E i \in 0..(Len(args.multi_scores) - 1) :
          /\ PairScore(<<i, 0>>) = args.score_thr
          /\ PairScore(<<i, 0>>) * PairFactor(<<i, 0>>) > args.score_thr
          /\ PairScore(<<i, 1>>) > args.score_thr
    /\ \E k, m \in Returned : ret.labels[k] = 0 /\ ret.labels[m] = 1
====
